---- MODULE Spec2Model ----
(***************************************************************************)
(* A model of the policy makers of benlooy/policymaker:                    *)
(*   policymaker.py        (single-policy mode)                            *)
(*   optum_policy_maker.py (multi-policy mode, one policy per tab)         *)
(*                                                                         *)
(* Text is modelled as a sequence of one-character strings, so splitting,  *)
(* trimming, case folding, prefix/suffix tests and str(int) are computed.  *)
(* A spreadsheet cell is a tagged value: absent (no such column), nan (a   *)
(* blank cell), num (n counts halves, so 5 is n = 10 and 5.5 is n = 11),   *)
(* bool, or str.                                                           *)
(***************************************************************************)
EXTENDS Integers, Sequences, FiniteSets, TLC

----------------------------------------------------------------------------
(* Bounds of the model *)

\* longest generated text of a list-valued cell
MaxLen == 3
\* most tabs of one workbook
MaxTabs == 2
\* most rule rows of one tab
MaxRules == 2
\* most rows of one IP-set table
MaxRows == 2

----------------------------------------------------------------------------
(* Cell values *)

Absent == [k |-> "absent", n |-> 0, b |-> FALSE, s |-> <<>>]
NaN == [k |-> "nan", n |-> 0, b |-> FALSE, s |-> <<>>]
Num(h) == [k |-> "num", n |-> h, b |-> FALSE, s |-> <<>>]
Bool(x) == [k |-> "bool", n |-> 0, b |-> x, s |-> <<>>]
Str(t) == [k |-> "str", n |-> 0, b |-> FALSE, s |-> t]

\* a whole number as a cell value
Whole(i) == Num(2 * i)

\* row.get(key, default): the default is used only when the column is absent
Get(v, default) == IF v.k = "absent" THEN default ELSE v

\* row.get(key): None when the column is absent; pd.isna(None) is True
IsNa(v) == v.k \in {"absent", "nan"}

\* isinstance(value, (int, float)): bool is a subclass of int, NaN is a float
IsIntOrFloat(v) == v.k \in {"num", "bool", "nan"}

----------------------------------------------------------------------------
(* Text *)

UpperAlphabet == <<"A","B","C","D","E","F","G","H","I","J","K","L","M","N","O","P","Q","R","S","T","U","V","W","X","Y","Z">>
LowerAlphabet == <<"a","b","c","d","e","f","g","h","i","j","k","l","m","n","o","p","q","r","s","t","u","v","w","x","y","z">>
Digits == <<"0","1","2","3","4","5","6","7","8","9">>
Whitespace == {" ", "\t", "\n", "\r"}

IndexIn(c, alphabet) == CHOOSE j \in 1..Len(alphabet) : alphabet[j] = c
IsIn(c, alphabet) == \E j \in 1..Len(alphabet) : alphabet[j] = c

UpperChar(c) == IF IsIn(c, LowerAlphabet) THEN UpperAlphabet[IndexIn(c, LowerAlphabet)] ELSE c
LowerChar(c) == IF IsIn(c, UpperAlphabet) THEN LowerAlphabet[IndexIn(c, UpperAlphabet)] ELSE c

\* str.upper() and str.lower()
Upper(t) == [j \in 1..Len(t) |-> UpperChar(t[j])]
Lower(t) == [j \in 1..Len(t) |-> LowerChar(t[j])]

\* str.startswith(p) and str.endswith(p)
StartsWith(t, p) == Len(t) >= Len(p) /\ SubSeq(t, 1, Len(p)) = p
EndsWith(t, p) == Len(t) >= Len(p) /\ SubSeq(t, Len(t) - Len(p) + 1, Len(t)) = p

\* str.strip(): leading and trailing whitespace removed
StripLeftOnly(t) ==
    LET keep == {j \in 1..Len(t) : t[j] \notin Whitespace}
    IN IF keep = {} THEN <<>>
       ELSE SubSeq(t, CHOOSE a \in keep : \A j \in keep : a <= j, Len(t))
Strip(t) ==
    LET keep == {j \in 1..Len(t) : t[j] \notin Whitespace}
    IN IF keep = {} THEN <<>>
       ELSE SubSeq(t, CHOOSE a \in keep : \A j \in keep : a <= j,
                      CHOOSE z \in keep : \A j \in keep : z >= j)

\* str.split(','): one piece more than there are commas, empty pieces kept
Split(t) ==
    LET cuts == {j \in 1..Len(t) : t[j] = ","} \cup {0, Len(t) + 1}
        nth(m) == CHOOSE p \in cuts : Cardinality({q \in cuts : q < p}) = m - 1
    IN [m \in 1..(Cardinality(cuts) - 1) |-> SubSeq(t, nth(m) + 1, nth(m + 1) - 1)]

\* str(i) of an int: decimal digits, a leading minus sign when negative
RECURSIVE IntToStr(_)
IntToStr(i) ==
    IF i < 0 THEN <<"-">> \o IntToStr(-i)
    ELSE IF i < 10 THEN <<Digits[i + 1]>>
    ELSE IntToStr(i \div 10) \o <<Digits[(i % 10) + 1]>>

\* int(x) of a float or int: truncation toward zero (n counts halves)
Trunc(h) == IF h >= 0 THEN h \div 2 ELSE -((-h) \div 2)

\* int(text): surrounding whitespace ignored, an optional sign, then digits only
IsIntText(t) ==
    LET u == Strip(t)
        d == IF u # <<>> /\ u[1] \in {"+", "-"} THEN Tail(u) ELSE u
    IN d # <<>> /\ \A j \in 1..Len(d) : IsIn(d[j], Digits)
RECURSIVE DigitsToInt(_)
DigitsToInt(d) ==
    IF d = <<>> THEN 0
    ELSE 10 * DigitsToInt(SubSeq(d, 1, Len(d) - 1)) + (IndexIn(d[Len(d)], Digits) - 1)
ParseInt(t) ==
    LET u == Strip(t)
    IN IF u[1] = "-" THEN -DigitsToInt(Tail(u))
       ELSE IF u[1] = "+" THEN DigitsToInt(Tail(u))
       ELSE DigitsToInt(u)

\* str(x) of a cell value (a whole number is a Python int)
ToStr(v) ==
    CASE v.k = "str" -> v.s
      [] v.k = "nan" -> <<"n","a","n">>
      [] v.k = "absent" -> <<"N","o","n","e">>
      [] v.k = "bool" -> IF v.b THEN <<"T","r","u","e">> ELSE <<"F","a","l","s","e">>
      [] v.k = "num" -> IF v.n % 2 = 0 THEN IntToStr(v.n \div 2)
                        ELSE (IF v.n < 0 THEN <<"-">> ELSE <<>>)
                             \o IntToStr(Trunc(IF v.n < 0 THEN -v.n ELSE v.n)) \o <<".","5">>

----------------------------------------------------------------------------
(* Literals of the source *)

SVCG_ == <<"S","V","C","G","_">>
_path == <<"_","p","a","t","h">>
any == <<"a","n","y">>
TRUE_ == <<"T","R","U","E">>
ALLOW == <<"A","L","L","O","W">>
IN_OUT == <<"I","N","_","O","U","T">>
IPV4_IPV6 == <<"I","P","V","4","_","I","P","V","6">>
Infrastructure == <<"I","n","f","r","a","s","t","r","u","c","t","u","r","e">>
Application == <<"A","p","p","l","i","c","a","t","i","o","n">>
Environment == <<"E","n","v","i","r","o","n","m","e","n","t">>
infrastructure == <<"i","n","f","r","a","s","t","r","u","c","t","u","r","e">>
application == <<"a","p","p","l","i","c","a","t","i","o","n">>
environment == <<"e","n","v","i","r","o","n","m","e","n","t">>

\* "${var.services_path." ... "}"
var_services_path == <<"$","{","v","a","r",".","s","e","r","v","i","c","e","s","_","p","a","t","h",".">>
\* "${var.default_services_path." ... "}"
var_default_services_path == <<"$","{","v","a","r",".","d","e","f","a","u","l","t","_","s","e","r","v","i","c","e","s","_","p","a","t","h",".">>
\* "${var.services_base_path}/" ...
var_services_base_path == <<"$","{","v","a","r",".","s","e","r","v","i","c","e","s","_","b","a","s","e","_","p","a","t","h","}","/">>
\* "${var.infra_groups_path." ... "_path}"
var_infra_groups_path == <<"$","{","v","a","r",".","i","n","f","r","a","_","g","r","o","u","p","s","_","p","a","t","h",".">>
\* "${var.env_groups_path." ... "_path}"
var_env_groups_path == <<"$","{","v","a","r",".","e","n","v","_","g","r","o","u","p","s","_","p","a","t","h",".">>
\* "${var.app_groups_path." ... "_path}"
var_app_groups_path == <<"$","{","v","a","r",".","a","p","p","_","g","r","o","u","p","s","_","p","a","t","h",".">>
\* "${var.groups_base_path}/" ...
var_groups_base_path == <<"$","{","v","a","r",".","g","r","o","u","p","s","_","b","a","s","e","_","p","a","t","h","}","/">>
CloseBrace == <<"}">>

----------------------------------------------------------------------------
(* construct_variable_reference, one per policy maker.  category = <<>>   *)
(* stands for None: the code only tests its truthiness.                    *)

policymaker_construct_variable_reference_pasted(type_str, name, category) ==
    IF type_str = "service"
    THEN IF StartsWith(name, SVCG_) THEN var_services_path \o name \o CloseBrace
         ELSE IF EndsWith(name, _path) THEN var_default_services_path \o name \o CloseBrace
         ELSE name
    ELSE IF category # <<>> /\ category = Infrastructure
              THEN var_infra_groups_path \o name \o _path \o CloseBrace
         ELSE IF category # <<>> /\ category = Environment
              THEN var_infra_groups_path \o name \o _path \o CloseBrace
         ELSE IF category # <<>> /\ category = Application
              THEN var_app_groups_path \o name \o _path \o CloseBrace
         ELSE name
policymaker_construct_variable_reference(type_str, name, category) ==
    IF type_str = "service"
    THEN IF StartsWith(name, SVCG_) THEN var_services_path \o name \o CloseBrace
         ELSE IF EndsWith(name, _path) THEN var_default_services_path \o name \o CloseBrace
         ELSE name
    ELSE IF category # <<>> /\ category = Infrastructure
              THEN var_infra_groups_path \o name \o _path \o CloseBrace
         ELSE IF category # <<>> /\ category = Environment
              THEN var_env_groups_path \o name \o _path \o CloseBrace
         ELSE IF category # <<>> /\ category = Application
              THEN var_app_groups_path \o name \o _path \o CloseBrace
         ELSE name

optum_construct_variable_reference(type_str, name, category) ==
    IF type_str = "service"
    THEN IF StartsWith(name, SVCG_) THEN var_services_path \o name \o CloseBrace
         ELSE IF EndsWith(name, _path) THEN var_services_base_path \o name
         ELSE var_services_base_path \o name
    ELSE IF category # <<>> /\ category = Infrastructure
              THEN var_infra_groups_path \o name \o _path \o CloseBrace
         ELSE IF category # <<>> /\ category = Environment
              THEN var_env_groups_path \o name \o _path \o CloseBrace
         ELSE IF category # <<>> /\ category = Application
              THEN var_groups_base_path \o name
         ELSE var_groups_base_path \o name

Makers == {"policymaker", "optum"}

construct_variable_reference(mk, type_str, name, category) ==
    IF mk = "policymaker"
    THEN policymaker_construct_variable_reference(type_str, name, category)
    ELSE optum_construct_variable_reference(type_str, name, category)

----------------------------------------------------------------------------
(* convert_to_bool: the same text in both policy makers *)

convert_to_bool_truthy(value) ==
    CASE value.k = "bool" -> value.b
      [] value.k = "str" -> value.s # <<>>
      [] value.k = "num" -> value.n # 0
      [] OTHER -> FALSE
convert_to_bool(value) ==
    CASE value.k = "bool" -> value.b
      [] value.k = "str" -> Upper(value.s) = TRUE_
      [] value.k = "num" -> value.n = 2
      [] OTHER -> FALSE

----------------------------------------------------------------------------
(* validate_category: the same text in both policy makers.  The result is *)
(* [ok |-> TRUE, value] or [ok |-> FALSE, error].                          *)

valid_categories == [key \in {application, infrastructure, environment} |->
    IF key = application THEN Application
    ELSE IF key = infrastructure THEN Infrastructure ELSE Environment]

Raise(kind) == [ok |-> FALSE, error |-> kind]
Return(x) == [ok |-> TRUE, value |-> x]

\* category.lower() exists only on text: the blank cell (a float) raises AttributeError
validate_category_lenient(category) ==
    IF category.k # "str" THEN Raise("AttributeError")
    ELSE IF Lower(category.s) \notin DOMAIN valid_categories THEN Return(Infrastructure)
    ELSE Return(valid_categories[Lower(category.s)])
validate_category(category) ==
    IF category.k # "str" THEN Raise("AttributeError")
    ELSE LET category_lower == Lower(category.s)
         IN IF category_lower \notin DOMAIN valid_categories THEN Raise("ValueError")
            ELSE Return(valid_categories[category_lower])

----------------------------------------------------------------------------
(* create_rule *)

\* int(rule_row.get("sequence_number", 0))
IntOf(v) ==
    CASE v.k = "num" -> Return(Trunc(v.n))
      [] v.k = "bool" -> Return(IF v.b THEN 1 ELSE 0)
      [] v.k = "str" -> IF IsIntText(v.s) THEN Return(ParseInt(v.s)) ELSE Raise("ValueError")
      [] v.k = "nan" -> Raise("ValueError")
      [] OTHER -> Raise("TypeError")

\* the guard of process_groups, spelt out again for services and scope
IsListText(value) ==
    /\ ~IsNa(value)
    /\ value.k = "str"
    /\ value.s # <<>>
    /\ value.s # any

\* [construct_variable_reference(kind, x.strip(), category) for x in value.split(',')]
ResolvePieces(mk, type_str, pieces, category) ==
    [j \in 1..Len(pieces) |->
        construct_variable_reference(mk, type_str, Strip(pieces[j]), category)]
ResolveAll(mk, type_str, text, category) ==
    ResolvePieces(mk, type_str, Split(text), category)

process_groups(mk, value, category) ==
    IF IsListText(value) THEN ResolveAll(mk, "group", value.s, category) ELSE <<>>

RuleRecord(mk, rule_row, category, seq) ==
    IF ~seq.ok THEN Raise(seq.error)
       ELSE Return(
        [ display_name |-> ToStr(Get(rule_row.display_name, Str(<<>>))),
          action |-> Get(rule_row.action, Str(ALLOW)),
          sequence_number |-> seq.value,
          description |-> <<>>,
          source_groups |-> process_groups(mk, rule_row.source_groups, category),
          sources_excluded |-> convert_to_bool(Get(rule_row.sources_excluded, Bool(FALSE))),
          destination_groups |-> process_groups(mk, rule_row.destination_groups, category),
          destinations_excluded |-> convert_to_bool(Get(rule_row.destinations_excluded, Bool(FALSE))),
          services |-> IF IsListText(rule_row.services)
                       THEN ResolveAll(mk, "service", rule_row.services.s, <<>>)
                       ELSE <<>>,
          scope |-> IF IsListText(rule_row.scope)
                    THEN ResolveAll(mk, "group", rule_row.scope.s, category)
                    ELSE <<>>,
          disabled |-> convert_to_bool(Get(rule_row.disabled, Bool(FALSE))),
          logged |-> convert_to_bool(Get(rule_row.logged, Bool(FALSE))),
          direction |-> Get(rule_row.direction, Str(IN_OUT)),
          ip_version |-> Get(rule_row.ip_version, Str(IPV4_IPV6)),
          log_label |-> <<>>,
          notes |-> <<>> ])
create_rule(mk, rule_row, category) ==
    RuleRecord(mk, rule_row, category, IntOf(Get(rule_row.sequence_number, Whole(0))))

\* the list comprehension over the rule rows: the first row that raises ends
\* it; calls counts the rows handed to create_rule
FirstRaise(results) ==
    LET bad == {j \in 1..Len(results) : ~results[j].ok}
    IN IF bad = {} THEN 0 ELSE CHOOSE j \in bad : \A m \in bad : j <= m
RulesOutcome_reversed(results, first) ==
    IF first = 0
    THEN [ok |-> TRUE,
          value |-> [j \in 1..Len(results) |-> results[Len(results) + 1 - j].value],
          calls |-> Len(results)]
    ELSE [ok |-> FALSE, error |-> results[first].error, calls |-> first]
RulesOutcome(results, first) ==
    IF first = 0
    THEN [ok |-> TRUE, value |-> [j \in 1..Len(results) |-> results[j].value],
          calls |-> Len(results)]
    ELSE [ok |-> FALSE, error |-> results[first].error, calls |-> first]
RulesOf(results) == RulesOutcome(results, FirstRaise(results))
CreateRules(mk, rule_rows, category) ==
    RulesOf([j \in 1..Len(rule_rows) |-> create_rule(mk, rule_rows[j], category)])

----------------------------------------------------------------------------
(* create_policy *)

\* policy_row.get(<name column>, policy_row.get("Application", "default-policy"))
default_policy == <<"d","e","f","a","u","l","t","-","p","o","l","i","c","y">>
PolicyName(policy_row) ==
    Get(policy_row.policy_name, Get(policy_row.Application, Str(default_policy)))

\* policymaker.py: a sequence number equal to 0 becomes ""; Python's == makes
\* 0, 0.0 and False equal to 0, and nothing else
policymaker_sequence_number_keep(raw) == Get(raw, Whole(0))
policymaker_sequence_number(raw) ==
    LET sequence_number == Get(raw, Whole(0))
    IN IF \/ (sequence_number.k = "num" /\ sequence_number.n = 0)
          \/ (sequence_number.k = "bool" /\ ~sequence_number.b)
       THEN Str(<<>>)
       ELSE sequence_number

\* optum_policy_maker.py: while str(sequence_number) in existing_sequences: += 1
RECURSIVE NextUnused(_, _)
NextUnused(i, existing) ==
    IF IntToStr(i) \in existing THEN NextUnused(i + 1, existing) ELSE i

\* optum_policy_maker.py: the sequence number handling of create_policy;
\* value is str(sequence_number), existing the set after the call
optum_sequence_number_no_record(raw, existing) ==
    LET sequence_number == Get(raw, Whole(0))
    IN IF sequence_number.k = "nan" THEN Raise("ValueError")
       ELSE IF IsIntOrFloat(sequence_number)
       THEN [ok |-> TRUE, value |-> IntToStr(NextUnused(IntOf(sequence_number).value, existing)),
             existing |-> existing]
       ELSE [ok |-> TRUE, value |-> ToStr(sequence_number), existing |-> existing]
optum_sequence_number(raw, existing) ==
    LET sequence_number == Get(raw, Whole(0))
    IN IF sequence_number.k = "nan" THEN Raise("ValueError")
       ELSE IF IsIntOrFloat(sequence_number)
       THEN LET unused == NextUnused(IntOf(sequence_number).value, existing)
            IN [ok |-> TRUE, value |-> IntToStr(unused),
                existing |-> existing \cup {IntToStr(unused)}]
       ELSE [ok |-> TRUE, value |-> ToStr(sequence_number), existing |-> existing]

\* the policy record both makers return (sequence_number: a cell value in
\* policymaker.py, text in optum_policy_maker.py)
Policy(policy_row, category, seq, rule_list) ==
    [ display_name |-> PolicyName(policy_row),
      category |-> category,
      locked |-> convert_to_bool(Get(policy_row.locked, Bool(FALSE))),
      sequence_number |-> seq,
      rule |-> rule_list ]

\* policymaker.py create_policy: validation, the rules, then the sequence number.
\* calls counts the rule rows handed to create_rule before it returned or raised.
PolicymakerAssemble(policy_row, category, rule_list) ==
    IF ~rule_list.ok
    THEN [ok |-> FALSE, error |-> rule_list.error, calls |-> rule_list.calls]
    ELSE [ok |-> TRUE, calls |-> rule_list.calls,
          value |-> Policy(policy_row, category,
                           policymaker_sequence_number(policy_row.sequence_number),
                           rule_list.value)]
PolicymakerValidated(policy_row, rule_rows, category) ==
    IF ~category.ok THEN [ok |-> FALSE, error |-> category.error, calls |-> 0]
    ELSE PolicymakerAssemble(policy_row, category.value,
                             CreateRules("policymaker", rule_rows, category.value))
policymaker_create_policy(policy_row, rule_rows) ==
    PolicymakerValidated(policy_row, rule_rows,
                         validate_category(Get(policy_row.category, Str(Infrastructure))))

\* optum_policy_maker.py create_policy: validation, the sequence number, then the
\* rules.  existing is the caller's set after the call, also when the call raised.
OptumAssemble(policy_row, category, seq, rule_list) ==
    IF ~rule_list.ok
    THEN [ok |-> FALSE, error |-> rule_list.error, calls |-> rule_list.calls,
          existing |-> seq.existing]
    ELSE [ok |-> TRUE, calls |-> rule_list.calls, existing |-> seq.existing,
          value |-> Policy(policy_row, category, Str(seq.value), rule_list.value)]
OptumSequenced(policy_row, rule_rows, existing_sequences, category, seq) ==
    IF ~seq.ok
    THEN [ok |-> FALSE, error |-> seq.error, calls |-> 0, existing |-> existing_sequences]
    ELSE OptumAssemble(policy_row, category, seq, CreateRules("optum", rule_rows, category))
OptumReserved(seq, existing_sequences) == IF seq.ok THEN seq.existing ELSE existing_sequences
OptumValidated_reserving(policy_row, rule_rows, existing_sequences, category) ==
    IF ~category.ok
    THEN [ok |-> FALSE, error |-> category.error, calls |-> 0,
          existing |-> OptumReserved(optum_sequence_number(policy_row.sequence_number,
                                                           existing_sequences),
                                     existing_sequences)]
    ELSE OptumSequenced(policy_row, rule_rows, existing_sequences, category.value,
             optum_sequence_number(policy_row.sequence_number, existing_sequences))
OptumValidated(policy_row, rule_rows, existing_sequences, category) ==
    IF ~category.ok
    THEN [ok |-> FALSE, error |-> category.error, calls |-> 0,
          existing |-> existing_sequences]
    ELSE OptumSequenced(policy_row, rule_rows, existing_sequences, category.value,
             optum_sequence_number(policy_row.sequence_number, existing_sequences))
optum_create_policy(policy_row, rule_rows, existing_sequences) ==
    OptumValidated(policy_row, rule_rows, existing_sequences,
                   validate_category(Get(policy_row.category, Str(Infrastructure))))

----------------------------------------------------------------------------
(* ipset_maker.py *)

\* [ip.strip() for ip in csv_str.split(',')]
StripEach(pieces) == [j \in 1..Len(pieces) |-> Strip(pieces[j])]

\* [ip for ip in ips if ip]
NonEmpty(ips) == SelectSeq(ips, LAMBDA ip : ip # <<>>)

\* clean_ip_addresses: a float or bool cell has no split and raises AttributeError
clean_ip_addresses_keep_empty(csv_str) ==
    IF IsNa(csv_str) THEN Return(<<>>)
    ELSE IF csv_str.k # "str" THEN Raise("AttributeError")
    ELSE Return(StripEach(Split(csv_str.s)))
clean_ip_addresses(csv_str) ==
    IF IsNa(csv_str) THEN Return(<<>>)
    ELSE IF csv_str.k # "str" THEN Raise("AttributeError")
    ELSE Return(NonEmpty(StripEach(Split(csv_str.s))))

\* re.sub(r'[^a-zA-Z0-9_-]', '_', group_name)
IsIdentifierChar(c) ==
    IsIn(c, LowerAlphabet) \/ IsIn(c, UpperAlphabet) \/ IsIn(c, Digits) \/ c \in {"_", "-"}
clean_name(group_name) ==
    [j \in 1..Len(group_name) |->
        IF IsIdentifierChar(group_name[j]) THEN group_name[j] ELSE "_"]

\* generate_hcl_locals: groups_data is the dict as the list of its items in
\* insertion order; the result lists the entries of ip_sets, one per item, each
\* standing for the four lines appended for it.  re.sub raises TypeError on a
\* key that is not text.
LocalsEntry(item) ==
    [ clean_name |-> clean_name(item.group_name.s),
      name |-> item.group_name.s,
      addresses |-> item.ip_addresses ]
generate_hcl_locals(groups_data) ==
    IF \E j \in 1..Len(groups_data) : groups_data[j].group_name.k # "str"
    THEN Raise("TypeError")
    ELSE Return([j \in 1..Len(groups_data) |-> LocalsEntry(groups_data[j])])

\* groups_data[group_name] = ip_addresses: the value of a key already in the
\* dict is replaced where it stands, a new key goes last
SetItem(groups_data, group_name, ip_addresses) ==
    IF \E j \in 1..Len(groups_data) : groups_data[j].group_name = group_name
    THEN [j \in 1..Len(groups_data) |->
            IF groups_data[j].group_name = group_name
            THEN [group_name |-> group_name, ip_addresses |-> ip_addresses]
            ELSE groups_data[j]]
    ELSE Append(groups_data, [group_name |-> group_name, ip_addresses |-> ip_addresses])

\* convert_xlsx_to_hcl: the loop over the rows of the table.  row['group_name']
\* and row['csv'] raise KeyError when the table has no such column.
GroupsStep(groups_data, row, ip_addresses) ==
    IF ~ip_addresses.ok THEN Raise(ip_addresses.error)
    ELSE IF ip_addresses.value = <<>> THEN Return(groups_data)
    ELSE Return(SetItem(groups_data, row.group_name, ip_addresses.value))
GroupsRow(groups_data, row) ==
    IF row.group_name.k = "absent" THEN Raise("KeyError")
    ELSE IF IsNa(row.group_name) THEN Return(groups_data)
    ELSE IF row.csv.k = "absent" THEN Raise("KeyError")
    ELSE GroupsStep(groups_data, row, clean_ip_addresses(row.csv))
RECURSIVE GroupsData(_, _)
GroupsData(df, groups_data) ==
    IF ~groups_data.ok \/ df = <<>> THEN groups_data
    ELSE GroupsData(Tail(df), GroupsRow(groups_data.value, Head(df)))

\* convert_xlsx_to_hcl's output: opened is whether open(output_file, 'w') was
\* reached, so that the file exists; content is what was written to it, the
\* locals block and then the resource block
app_shared_ipsets == <<"a","p","p","_","s","h","a","r","e","d","_","i","p","s","e","t","s">>
HclFile(locals_block, resource) == [locals |-> locals_block, resource |-> resource]
ConvertWrite(locals_block) ==
    IF ~locals_block.ok
    THEN [ok |-> FALSE, error |-> locals_block.error, opened |-> TRUE,
          content |-> HclFile(<<>>, FALSE)]
    ELSE [ok |-> TRUE, opened |-> TRUE, content |-> HclFile(locals_block.value, TRUE)]
ConvertGroups(groups_data) ==
    IF ~groups_data.ok
    THEN [ok |-> FALSE, error |-> groups_data.error, opened |-> FALSE,
          content |-> HclFile(<<>>, FALSE)]
    ELSE ConvertWrite(generate_hcl_locals(groups_data.value))
convert_xlsx_to_hcl(df) == ConvertGroups(GroupsData(df, Return(<<>>)))

----------------------------------------------------------------------------
(* Inputs *)

\* every text of at most n characters over an alphabet
Texts(alphabet, n) == UNION {[1..m -> alphabet] : m \in 0..n}

\* list-valued cells: generated texts and the texts the documentation names
ListAlphabet == {"A", "B", ",", " "}
ListTexts ==
    Texts(ListAlphabet, MaxLen) \cup
    { any, <<"A","n","y">>, <<" ","a","n","y">>, <<"a","n","y",",","A">>,
      <<"A",","," ","B",",","C">>, <<"A",",",",","B">>, <<" ","A"," ",",","\t","B","\n">>,
      <<"S","V","C","G","_","W",",","H","_","p","a","t","h">> }
ListValues == {Absent, NaN, Whole(7), Bool(TRUE)} \cup {Str(t) : t \in ListTexts}

\* boolean cells
TrueSpellings == {<<a, b, c, d>> : a \in {"t", "T"}, b \in {"r", "R"}, c \in {"u", "U"}, d \in {"e", "E"}}
BoolValues ==
    {Absent, NaN, Bool(TRUE), Bool(FALSE), Whole(0), Whole(1), Whole(2), Num(3), Whole(-1)} \cup
    {Str(t) : t \in TrueSpellings} \cup
    {Str(t) : t \in { <<>>, <<"1">>, <<"f","a","l","s","e">>, <<"F","A","L","S","E">>,
                      <<"y","e","s">>, <<"T","R","U","E"," ">>, <<"T">>, <<"1",".","0">> }}

\* action, direction, ip_version
ScalarValues == {Absent, NaN, Whole(1), Str(<<"D","R","O","P">>), Str(<<>>)}

\* the sequence_number cell of a rule row
RuleSequenceValues ==
    {Absent, NaN, Whole(0), Whole(3), Num(7), Num(-7), Bool(TRUE), Bool(FALSE),
     Str(<<"1","2">>), Str(<<" ","-","4"," ">>), Str(<<"a","b","c">>), Str(<<>>),
     Str(<<"3",".","5">>)}

DisplayNameValues == {Absent, Str(<<"r","1">>), Whole(4), NaN}

RowA ==
    [ display_name |-> Str(<<"a">>), action |-> Absent, sequence_number |-> Whole(1),
      sources_excluded |-> Absent, destinations_excluded |-> Absent, disabled |-> Absent,
      logged |-> Absent, direction |-> Absent, ip_version |-> Absent,
      destination_groups |-> Str(any), services |-> Str(<<"H","_","p","a","t","h">>),
      source_groups |-> Str(<<"W">>), scope |-> Absent ]
RowB == [RowA EXCEPT !.display_name = Str(<<"b">>), !.sequence_number = Whole(2),
                     !.logged = Str(TRUE_)]
\* a rule row whose sequence_number cell is blank
RowBlank == [RowA EXCEPT !.display_name = Str(<<"c">>), !.sequence_number = NaN]

BoolFields == {"sources_excluded", "destinations_excluded", "disabled", "logged"}
ListFields == {"source_groups", "destination_groups", "services", "scope"}
ScalarFields == {"action", "direction", "ip_version"}

\* rule rows for one call of create_rule: RowA with one cell replaced
RuleRowInputs ==
    {[RowA EXCEPT ![f] = v] : f \in ListFields, v \in ListValues} \cup
    {[RowA EXCEPT ![f] = v] : f \in BoolFields, v \in BoolValues} \cup
    {[RowA EXCEPT ![f] = v] : f \in ScalarFields, v \in ScalarValues} \cup
    {[RowA EXCEPT !.sequence_number = v] : v \in RuleSequenceValues} \cup
    {[RowA EXCEPT !.display_name = v] : v \in DisplayNameValues}

Categories == {Infrastructure, Environment, Application}

\* names handed to construct_variable_reference
NameAlphabet == {"A", "_"}
NameInputs ==
    Texts(NameAlphabet, MaxLen) \cup
    { SVCG_, _path, <<"S","V","C","G">>, <<"p","a","t","h">>,
      <<"S","V","C","G","_","W","e","b">>, <<"H","T","T","P","S","_","p","a","t","h">>,
      <<"S","V","C","G","_","p","a","t","h">>, <<"S","V","C","G","_","W","_","p","a","t","h">>,
      <<"s","v","c","g","_","W">>, <<"H","_","P","A","T","H">>, <<"W","e","b","T","i","e","r">>,
      <<"H","T","T","P","S">>, <<"_","p","a","t","h","s">>, <<"X","S","V","C","G","_">> }
CategoryArguments == Categories \cup {<<>>, infrastructure, <<"F","o","o">>}

\* header rows
Foo == <<"F","o","o">>
Header(category, seq, name, app, locked) ==
    [ category |-> category, sequence_number |-> seq, policy_name |-> name,
      Application |-> app, locked |-> locked ]

CategoryTexts ==
    { application, infrastructure, environment, Application, Infrastructure, Environment,
      Upper(application), <<"i","N","F","R","A","s","t","r","u","c","t","u","r","e">>,
      Foo, <<>>, <<"a","p","p">>, application \o <<"s">>, <<" ">> \o application,
      <<"i","n","f","r","a">>, environment \o <<" ">> }
CategoryValues == {Absent, NaN, Whole(1), Bool(TRUE)} \cup {Str(t) : t \in CategoryTexts}

PolicySequenceValues ==
    {Absent, NaN, Whole(0), Num(1), Whole(5), Num(11), Whole(-3), Bool(TRUE), Bool(FALSE),
     Str(<<"5">>), Str(<<"0">>), Str(<<>>)}

P1 == <<"A","p","p","1","-","W","e","b">>
P2 == <<"A","p","p","1","-","D","B">>
NameValues == {Absent, Str(P1), Str(P2)}

\* every list of at most n rule rows
RuleLists(rows, n) == UNION {[1..m -> rows] : m \in 0..n}

\* policymaker.py reads one header row and its rule rows
PolicymakerInputs ==
    {[header |-> Header(c, Whole(5), Str(P1), Absent, Absent), rules |-> r] :
        c \in CategoryValues, r \in {<<>>, <<RowA, RowB>>}} \cup
    {[header |-> Header(Str(application), q, Str(P1), Absent, Absent), rules |-> <<RowA>>] :
        q \in PolicySequenceValues} \cup
    {[header |-> Header(Absent, Absent, n, a, Absent), rules |-> <<>>] :
        n \in NameValues, a \in NameValues} \cup
    {[header |-> Header(Str(Environment), Absent, Str(P1), Absent, l), rules |-> <<>>] :
        l \in BoolValues} \cup
    {[header |-> Header(Str(infrastructure), Whole(1), Str(P2), Absent, Absent), rules |-> r] :
        r \in RuleLists({RowA, RowB, RowBlank}, MaxRules)}

\* optum_policy_maker.py reads one header row and its rule rows per tab
OptumCategoryValues == {Absent, NaN, Str(Upper(application)), Str(Foo)}
OptumSequenceValues == {Absent, NaN, Whole(5), Num(11), Num(-7), Bool(TRUE), Str(<<"5">>)}
OptumInputs ==
    {[header |-> Header(c, q, Absent, Absent, Absent), rules |-> <<RowA>>] :
        c \in OptumCategoryValues \ {Absent}, q \in OptumSequenceValues} \cup
    {[header |-> Header(Absent, Whole(5), Absent, Absent, Absent), rules |-> <<RowA>>]} \cup
    {[header |-> Header(Str(infrastructure), Whole(5), Str(P1), Absent, Absent), rules |-> r] :
        r \in RuleLists({RowA, RowBlank}, MaxRules) \cup {<<RowA, RowB>>, <<RowB, RowA>>}} \cup
    {[header |-> Header(Absent, Absent, n, a, Absent), rules |-> <<>>] :
        n \in {Absent, Str(P1)}, a \in {Str(P2)}}

\* sets of sequence numbers a caller of create_policy may hold
ExistingTexts == {<<"0">>, <<"1">>, <<"5">>, <<"6">>, <<"7">>, <<"-","3">>}

\* ipset_maker.py: csv cells, group names, tables
DBServers == <<"D","B"," ","S","e","r","v","e","r","s">>
DB_Servers == <<"D","B","_","S","e","r","v","e","r","s">>
Address1 == <<"1","0",".","0",".","0",".","1">>
Address2 == <<"1","0",".","0",".","0",".","2">>
TwoAddresses == Address1 \o <<",", " ">> \o Address2 \o <<",">>
CsvValues ==
    {Absent, NaN, Whole(7), Bool(TRUE)} \cup
    {Str(t) : t \in Texts({"1", ",", " "}, MaxLen) \cup
                    {TwoAddresses, <<" ">> \o Address1 \o <<"\t",",",",","\n">> \o Address2}}
GroupNameTexts ==
    Texts({"a", "Z", "0", "_", "-", " ", "."}, MaxLen) \cup
    {DBServers, DB_Servers, <<"D","B","/","1","é","$">>, <<"w","e","b","-","0","1","_","A","z","9">>}
Item(group_name, ip_addresses) == [group_name |-> group_name, ip_addresses |-> ip_addresses]
GroupsDataInputs ==
    {<<>>} \cup
    {<<Item(Str(t), <<Address1>>)>> : t \in GroupNameTexts} \cup
    {<<Item(Str(DBServers), <<Address1, Address2>>), Item(g, <<Address2>>)>> :
        g \in {Str(DB_Servers), Whole(1)}}
IpsetRows ==
    {[group_name |-> g, csv |-> c] :
        g \in {Str(DBServers), Str(DB_Servers)},
        c \in {NaN, Str(TwoAddresses), Str(<<"1">>), Str(<<" ",","," ">>)}} \cup
    {[group_name |-> NaN, csv |-> Str(<<"1">>)],
     [group_name |-> Str(DBServers), csv |-> Whole(7)],
     [group_name |-> Whole(1), csv |-> Str(<<"1">>)],
     [group_name |-> Absent, csv |-> Str(<<"1">>)],
     [group_name |-> Str(DBServers), csv |-> Absent]}
IpsetTables == UNION {[1..m -> IpsetRows] : m \in 0..MaxRows}

\* the command line: argc is len(sys.argv); exists and suffix describe the file
\* input/<argument>; target is what a shortcut resolves to
xlsx == <<".","x","l","s","x">>
xls == <<".","x","l","s">>
xlsm == <<".","x","l","s","m">>
csv == <<".","c","s","v">>
txt == <<".","t","x","t">>
lnk == <<".","l","n","k">>
NoTarget == [resolved |-> FALSE, exists |-> FALSE, suffix |-> <<>>]
Target(exists, suffix) == [resolved |-> TRUE, exists |-> exists, suffix |-> suffix]
Argv(argc, exists, suffix, target) ==
    [argc |-> argc, exists |-> exists, suffix |-> suffix, target |-> target]
PolicyArgvInputs ==
    {Argv(n, TRUE, xlsx, NoTarget) : n \in {1, 3}} \cup
    {Argv(2, e, x, NoTarget) : e \in BOOLEAN, x \in {xlsx, csv, txt}}
IpsetArgvInputs ==
    {Argv(n, TRUE, xlsx, NoTarget) : n \in {1, 3}} \cup
    {Argv(2, e, x, NoTarget) : e \in BOOLEAN, x \in {xlsx, Upper(xls), csv, <<>>}} \cup
    {Argv(2, TRUE, lnk, t) :
        t \in {NoTarget, Target(FALSE, xlsx), Target(TRUE, xlsm), Target(TRUE, txt),
               Target(TRUE, lnk)}} \cup
    {Argv(2, TRUE, Upper(lnk), NoTarget)}

----------------------------------------------------------------------------
(* State *)

VARIABLES
    argv,                \* the command line of a main
    prog,                \* what runs: a maker's main, or one call of a function
    pc,                  \* where the run is
    tab,                 \* tabs finished so far
    existing_sequences,  \* main's set of sequence numbers in use (text)
    created,             \* rule rows handed to create_rule so far in this run
    produced,            \* the policies create_policy has returned, in order
    written,             \* the files written, in order: [file, policy]
    files,               \* names of the output files that exist
    error,               \* the exception that ended the run, or "none"
    exit_status,         \* the process's exit status, -1 while it runs
    call,                \* the arguments of the latest function call
    result               \* what that call returned or raised

vars == << argv, prog, pc, tab, existing_sequences, created, produced, written, files,
           error, exit_status, call, result >>

Programs == {"optum_main", "policymaker_main", "ipset_main", "optum_create_policy",
             "create_rule", "construct_variable_reference", "clean_ip_addresses",
             "generate_hcl_locals"}

NoCall == [fn |-> "none"]

Init ==
    /\ prog \in Programs
    /\ argv \in CASE prog \in {"optum_main", "policymaker_main"} -> PolicyArgvInputs
                  [] prog = "ipset_main" -> IpsetArgvInputs
                  [] OTHER -> {Argv(0, FALSE, <<>>, NoTarget)}
    /\ pc = "start"
    /\ tab = 0
    /\ existing_sequences = {}
    /\ created = 0
    /\ produced = <<>>
    /\ written = <<>>
    /\ files \in IF prog = "policymaker_main" THEN {{}, {P1}} ELSE {{}}
    /\ error = "none"
    /\ exit_status = -1
    /\ call = NoCall
    /\ result = NoCall

CreatePolicyCall(mk, input, existing) ==
    [fn |-> "create_policy", mk |-> mk, policy_row |-> input.header,
     rules |-> input.rules, existing |-> existing]

----------------------------------------------------------------------------
(* The command line *)

\* sys.exit(status) before anything was read or written
Exit(status) ==
    /\ pc' = "exited"
    /\ exit_status' = status
    /\ UNCHANGED << argv, prog, tab, existing_sequences, created, produced, written, files,
                    error, call, result >>

\* an exception that ends the run with status 1 before any file is opened: the
\* input cannot be read as the table it is taken for
ReadError ==
    /\ pc' = "failed"
    /\ error' = "ReadError"
    /\ exit_status' = 1
    /\ UNCHANGED << argv, prog, tab, existing_sequences, created, produced, written, files,
                    call, result >>

\* len(sys.argv) == 2 and os.path.exists(input_path)
ArgumentsPass == argv.argc = 2 /\ argv.exists

\* os.path.splitext(filepath)[1].lower() == '.xlsx': every other file is read as CSV
IsWorkbook == Lower(argv.suffix) = xlsx

----------------------------------------------------------------------------
(* optum_policy_maker.py: main *)

\* if len(sys.argv) != 2: usage, sys.exit(1)
OptumUsage == prog = "optum_main" /\ pc = "start" /\ argv.argc # 2 /\ Exit(1)

\* if not os.path.exists(input_path): sys.exit(1)
OptumNotFound ==
    prog = "optum_main" /\ pc = "start" /\ argv.argc = 2 /\ ~argv.exists /\ Exit(1)

\* read_input_file raises: main prints and re-raises, the interpreter exits 1
OptumReadError == prog = "optum_main" /\ pc = "start" /\ ArgumentsPass /\ ReadError

\* if not policy_rules_pairs: sys.exit(1)
OptumNoPolicies ==
    prog = "optum_main" /\ pc = "start" /\ ArgumentsPass /\ IsWorkbook /\ Exit(1)

\* existing_sequences = set(); the loop over the tabs begins
OptumBegin ==
    /\ prog = "optum_main" /\ pc = "start"
    /\ ArgumentsPass
    /\ pc' = "loop"
    /\ existing_sequences' = {}
    /\ UNCHANGED << argv, prog, tab, created, produced, written, files, error, exit_status,
                    call, result >>

\* main's own policy_name: policy_df.iloc[0].get("policy_display_name", "default-policy")
OptumFileName(row) == ToStr(Get(row.policy_name, Str(default_policy)))

\* one turn of the loop: create_single_policy, then write_policy_to_file, where an
\* existing file is overwritten only when the user agrees.  An exception of
\* create_policy is re-raised by main and the interpreter exits 1.
OptumTurn(input, overwrite, r, file) ==
    /\ call' = CreatePolicyCall("optum", input, existing_sequences)
    /\ result' = r
    /\ existing_sequences' = r.existing
    /\ created' = created + r.calls
    /\ IF r.ok
       THEN /\ produced' = Append(produced, r.value)
            /\ (file \notin files) => overwrite
            /\ IF overwrite
               THEN /\ written' = Append(written, [file |-> file, policy |-> r.value])
                    /\ files' = files \cup {file}
               ELSE UNCHANGED << written, files >>
            /\ tab' = tab + 1
            /\ UNCHANGED << pc, error, exit_status >>
       ELSE /\ overwrite
            /\ pc' = "failed"
            /\ error' = r.error
            /\ exit_status' = 1
            /\ UNCHANGED << produced, written, files, tab >>
OptumTab(input, overwrite) ==
    /\ prog = "optum_main" /\ pc = "loop"
    /\ tab < (IF IsWorkbook THEN MaxTabs ELSE 1)
    /\ OptumTurn(input, overwrite,
                 optum_create_policy(input.header, input.rules, existing_sequences),
                 OptumFileName(input.header))
    /\ UNCHANGED << argv, prog >>

\* the loop ends and main returns
OptumDone ==
    /\ prog = "optum_main" /\ pc = "loop"
    /\ tab >= 1
    /\ pc' = "done"
    /\ exit_status' = 0
    /\ UNCHANGED << argv, prog, tab, existing_sequences, created, produced, written, files,
                    error, call, result >>

----------------------------------------------------------------------------
(* policymaker.py: main *)

\* if len(sys.argv) != 2: usage, sys.exit(1)
PolicymakerUsage == prog = "policymaker_main" /\ pc = "start" /\ argv.argc # 2 /\ Exit(1)

\* if not os.path.exists(input_path): sys.exit(1)
PolicymakerNotFound ==
    prog = "policymaker_main" /\ pc = "start" /\ argv.argc = 2 /\ ~argv.exists /\ Exit(1)

\* read_input_file raises: main prints the error and exits 1
PolicymakerReadError ==
    prog = "policymaker_main" /\ pc = "start" /\ ArgumentsPass /\ ReadError

\* main's file name: policy_df.iloc[0].get('Terraform Policy File'), None when absent
PolicymakerFileName(row) == ToStr(row.policy_name)

\* read_input_file, create_policy, then the file is written, or the user declines
\* to overwrite it and main exits 0.  An exception is printed and main exits 1.
PolicymakerOutcome(input, overwrite, r, file) ==
    /\ call' = CreatePolicyCall("policymaker", input, {})
    /\ result' = r
    /\ created' = created + r.calls
    /\ IF r.ok
       THEN /\ produced' = Append(produced, r.value)
            /\ (file \notin files) => overwrite
            /\ IF overwrite
               THEN /\ written' = Append(written, [file |-> file, policy |-> r.value])
                    /\ files' = files \cup {file}
                    /\ pc' = "done"
               ELSE /\ pc' = "cancelled"
                    /\ UNCHANGED << written, files >>
            /\ tab' = tab + 1
            /\ exit_status' = 0
            /\ UNCHANGED error
       ELSE /\ overwrite
            /\ pc' = "failed"
            /\ error' = r.error
            /\ exit_status' = 1
            /\ UNCHANGED << produced, written, files, tab >>
PolicymakerRun(input, overwrite) ==
    /\ prog = "policymaker_main" /\ pc = "start"
    /\ ArgumentsPass
    /\ PolicymakerOutcome(input, overwrite,
                          policymaker_create_policy(input.header, input.rules),
                          PolicymakerFileName(input.header))
    /\ UNCHANGED << argv, prog, existing_sequences >>

----------------------------------------------------------------------------
(* ipset_maker.py: main *)

\* the file main goes on with: the target of a shortcut that resolved, else
\* input/<argument> itself
InputFile ==
    IF Lower(argv.suffix) = lnk /\ argv.target.resolved
    THEN [exists |-> argv.target.exists, suffix |-> argv.target.suffix]
    ELSE [exists |-> argv.exists, suffix |-> argv.suffix]

\* if len(sys.argv) != 2: usage, sys.exit(1)
IpsetUsage == prog = "ipset_main" /\ pc = "start" /\ argv.argc # 2 /\ Exit(1)

\* if not input_file.exists(): sys.exit(1)
IpsetNotFound ==
    prog = "ipset_main" /\ pc = "start" /\ argv.argc = 2 /\ ~argv.exists /\ Exit(1)

\* a shortcut that does not resolve: sys.exit(1)
IpsetShortcutFailed ==
    /\ prog = "ipset_main" /\ pc = "start" /\ ArgumentsPass
    /\ Lower(argv.suffix) = lnk /\ ~argv.target.resolved
    /\ Exit(1)

ShortcutPass == ArgumentsPass /\ (Lower(argv.suffix) = lnk => argv.target.resolved)

\* the resolved file does not exist: sys.exit(1)
IpsetTargetNotFound ==
    prog = "ipset_main" /\ pc = "start" /\ ShortcutPass /\ ~InputFile.exists /\ Exit(1)

\* input_file.suffix.lower() in ['.xlsx', '.xls', '.xlsm']
IsExcel == Lower(InputFile.suffix) \in {xlsx, xls, xlsm}

\* the resolved file is not an Excel file: sys.exit(1)
IpsetNotExcel ==
    /\ prog = "ipset_main" /\ pc = "start" /\ ShortcutPass /\ InputFile.exists
    /\ ~IsExcel
    /\ Exit(1)

IpsetPass == ShortcutPass /\ InputFile.exists /\ IsExcel

\* pd.read_excel raises inside convert_xlsx_to_hcl: sys.exit(1)
IpsetReadError == prog = "ipset_main" /\ pc = "start" /\ IpsetPass /\ ReadError

\* convert_xlsx_to_hcl on the table read: the output file is opened for writing
\* once the rows are processed (an existing file is overwritten unasked), and an
\* exception at any point ends the run with status 1
IpsetOutcome(df, r) ==
    /\ call' = [fn |-> "convert_xlsx_to_hcl", df |-> df]
    /\ result' = r
    /\ IF r.opened
       THEN /\ written' = Append(written, [file |-> app_shared_ipsets, policy |-> r.content])
            /\ files' = files \cup {app_shared_ipsets}
       ELSE UNCHANGED << written, files >>
    /\ IF r.ok
       THEN /\ pc' = "done"
            /\ exit_status' = 0
            /\ UNCHANGED error
       ELSE /\ pc' = "failed"
            /\ error' = r.error
            /\ exit_status' = 1
IpsetConvert(df) ==
    /\ prog = "ipset_main" /\ pc = "start"
    /\ IpsetPass
    /\ IpsetOutcome(df, convert_xlsx_to_hcl(df))
    /\ UNCHANGED << argv, prog, tab, existing_sequences, created, produced >>

----------------------------------------------------------------------------
(* One call of a function, with its arguments drawn from the input sets *)

CallCleanIpAddresses(csv_str) ==
    /\ prog = "clean_ip_addresses" /\ pc = "start"
    /\ call' = [fn |-> "clean_ip_addresses", csv_str |-> csv_str]
    /\ result' = clean_ip_addresses(csv_str)
    /\ pc' = "returned"
    /\ UNCHANGED << argv, prog, tab, existing_sequences, created, produced, written, files,
                    error, exit_status >>

CallGenerateHclLocals(groups_data) ==
    /\ prog = "generate_hcl_locals" /\ pc = "start"
    /\ call' = [fn |-> "generate_hcl_locals", groups_data |-> groups_data]
    /\ result' = generate_hcl_locals(groups_data)
    /\ pc' = "returned"
    /\ UNCHANGED << argv, prog, tab, existing_sequences, created, produced, written, files,
                    error, exit_status >>

CallOptumCreatePolicy(input, existing) ==
    /\ prog = "optum_create_policy" /\ pc = "start"
    /\ call' = CreatePolicyCall("optum", input, existing)
    /\ result' = optum_create_policy(input.header, input.rules, existing)
    /\ existing_sequences' = result'.existing
    /\ created' = result'.calls
    /\ pc' = "returned"
    /\ UNCHANGED << argv, prog, tab, produced, written, files, error, exit_status >>

CallCreateRule(mk, rule_row, category) ==
    /\ prog = "create_rule" /\ pc = "start"
    /\ call' = [fn |-> "create_rule", mk |-> mk, rule_row |-> rule_row, category |-> category]
    /\ result' = create_rule(mk, rule_row, category)
    /\ pc' = "returned"
    /\ UNCHANGED << argv, prog, tab, existing_sequences, created, produced, written, files,
                    error, exit_status >>

CallConstructVariableReference(mk, type_str, name, category) ==
    /\ prog = "construct_variable_reference" /\ pc = "start"
    /\ call' = [fn |-> "construct_variable_reference", mk |-> mk, type_str |-> type_str,
                name |-> name, category |-> category]
    /\ result' = construct_variable_reference(mk, type_str, name, category)
    /\ pc' = "returned"
    /\ UNCHANGED << argv, prog, tab, existing_sequences, created, produced, written, files,
                    error, exit_status >>

----------------------------------------------------------------------------
(* Specification *)

Next ==
    \/ OptumUsage
    \/ OptumNotFound
    \/ OptumReadError
    \/ OptumNoPolicies
    \/ OptumBegin
    \/ \E input \in OptumInputs, overwrite \in BOOLEAN : OptumTab(input, overwrite)
    \/ OptumDone
    \/ PolicymakerUsage
    \/ PolicymakerNotFound
    \/ PolicymakerReadError
    \/ \E input \in PolicymakerInputs, overwrite \in BOOLEAN : PolicymakerRun(input, overwrite)
    \/ IpsetUsage
    \/ IpsetNotFound
    \/ IpsetShortcutFailed
    \/ IpsetTargetNotFound
    \/ IpsetNotExcel
    \/ IpsetReadError
    \/ \E df \in IpsetTables : IpsetConvert(df)
    \/ \E csv_str \in CsvValues : CallCleanIpAddresses(csv_str)
    \/ \E groups_data \in GroupsDataInputs : CallGenerateHclLocals(groups_data)
    \/ \E input \in OptumInputs, existing \in SUBSET ExistingTexts :
          CallOptumCreatePolicy(input, existing)
    \/ \E mk \in Makers, rule_row \in RuleRowInputs, category \in Categories :
          CallCreateRule(mk, rule_row, category)
    \/ \E mk \in Makers, type_str \in {"service", "group"}, name \in NameInputs,
          category \in CategoryArguments :
          CallConstructVariableReference(mk, type_str, name, category)

Spec == Init /\ [][Next]_vars

----------------------------------------------------------------------------
(* Properties *)

\* the latest call was create_policy of a maker
IsCreatePolicy(mk) == call.fn = "create_policy" /\ call.mk = mk

\* the header cell of the latest create_policy call, with the code's default
CandidateSequence == Get(call.policy_row.sequence_number, Whole(0))

\* the whole number a numeric cell stands for once its fraction is cut off
\* (n counts halves): stated by bounds, not by division
IntPart(v) ==
    IF v.k = "bool" THEN (IF v.b THEN 1 ELSE 0)
    ELSE CHOOSE t \in -20..20 :
            IF v.n >= 0 THEN 2 * t <= v.n /\ v.n < 2 * t + 2
            ELSE 2 * t >= v.n /\ v.n > 2 * t - 2

\* C1: in multi-policy mode no two policies produced in the same run carry the
\* same serialized sequence_number, whatever the header cells hold.
C1_NoSequenceCollision ==
    prog = "optum_main" =>
        \A i, j \in 1..Len(produced) :
            i # j => produced[i].sequence_number # produced[j].sequence_number

\* C2: create_policy (multi-policy mode) called with a numeric candidate s and a
\* set S returns the least integer v >= int(s) whose text is not in S, after at
\* most |S| increments, and leaves the set as S with exactly str(v) added; two
\* policies of one batch that both specify 5 receive 5 and 6 in source order.
C2_LeastUnusedRecorded ==
    /\ (IsCreatePolicy("optum") /\ result.ok /\ CandidateSequence.k \in {"num", "bool"}) =>
          LET S == call.existing
              s == IntPart(CandidateSequence)
          IN /\ \E v \in s..(s + Cardinality(S)) :
                  /\ result.value.sequence_number = Str(IntToStr(v))
                  /\ IntToStr(v) \notin S
                  /\ \A w \in s..(v - 1) : IntToStr(w) \in S
                  /\ result.existing = S \cup {IntToStr(v)}
             /\ existing_sequences = result.existing
    /\ (/\ prog = "optum_main" /\ Len(produced) = 2 /\ result.ok
        /\ call.existing = {<<"5">>}
        /\ produced[1].sequence_number = Str(<<"5">>)
        /\ CandidateSequence = Whole(5)) =>
          produced[2].sequence_number = Str(<<"6">>)

\* a batch of two policies that both specify 5 has been assembled: 5, then 6
C2_Witness ==
    /\ prog = "optum_main" /\ Len(produced) = 2 /\ result.ok
    /\ CandidateSequence = Whole(5)
    /\ call.existing = {<<"5">>}
    /\ produced[1].sequence_number = Str(<<"5">>)
    /\ produced[2].sequence_number = Str(<<"6">>)
    /\ existing_sequences = {<<"5">>, <<"6">>}

\* a text equal to one of the three category names but for the case of its letters
IsCategoryName(t) ==
    \E w \in {application, infrastructure, environment} :
        /\ Len(t) = Len(w)
        /\ \A j \in 1..Len(w) : t[j] = w[j] \/ t[j] = UpperChar(w[j])

\* C3: in both policy makers create_policy raises the validation error (ValueError)
\* whenever the header's category text, compared case-insensitively, is not one of
\* application, infrastructure, environment; it does so before any rule row is
\* handed to create_rule and returns no policy.  (A category cell that is present
\* but not text fails as early, with AttributeError.)
C3_InvalidCategoryRaisesFirst ==
    (call.fn = "create_policy" /\ call.policy_row.category.k # "absent"
        /\ ~(call.policy_row.category.k = "str" /\ IsCategoryName(call.policy_row.category.s))) =>
        /\ ~result.ok
        /\ result.calls = 0
        /\ "value" \notin DOMAIN result
        /\ call.policy_row.category.k = "str" => result.error = "ValueError"
        /\ prog \in {"optum_main", "policymaker_main"} =>
              /\ pc = "failed" /\ error = result.error
              /\ Len(produced) = tab /\ Len(written) <= tab

\* category "Foo" with rule rows waiting: ValueError, no rule row touched
C3_Witness ==
    /\ prog = "policymaker_main" /\ pc = "failed"
    /\ IsCreatePolicy("policymaker")
    /\ call.policy_row.category = Str(Foo)
    /\ call.rules # <<>>
    /\ result.error = "ValueError" /\ result.calls = 0 /\ created = 0
    /\ produced = <<>>

\* the latest call was create_rule and it returned a rule
RuleReturned == call.fn = "create_rule" /\ result.ok

\* the pieces of a text between its commas, read off character by character
RECURSIVE Scan(_, _, _)
Scan(t, done, piece) ==
    IF t = <<>> THEN Append(done, piece)
    ELSE IF Head(t) = "," THEN Scan(Tail(t), Append(done, piece), <<>>)
    ELSE Scan(Tail(t), done, Append(piece, Head(t)))
CommaPieces(t) == Scan(t, <<>>, <<>>)

\* a text without the whitespace at its ends
RECURSIVE Trimmed(_)
Trimmed(t) ==
    IF t = <<>> THEN t
    ELSE IF Head(t) \in Whitespace THEN Trimmed(Tail(t))
    ELSE IF t[Len(t)] \in Whitespace THEN Trimmed(SubSeq(t, 1, Len(t) - 1))
    ELSE t

\* how create_rule resolves the elements of a list-valued field
KindOf(f) == IF f = "services" THEN "service" ELSE "group"
CategoryOf(f) == IF f = "services" THEN <<>> ELSE call.category
Resolved(f, name) == construct_variable_reference(call.mk, KindOf(f), name, CategoryOf(f))

ABC == <<"A", ",", " ", "B", ",", "C">>
InfraReference(name) == var_infra_groups_path \o name \o _path \o CloseBrace

\* C4: in create_rule each list-valued field (source_groups, destination_groups,
\* services, scope) is the empty list when its cell is absent, blank, empty or
\* exactly "any"; any other text is split on commas, each element trimmed, and the
\* field holds the resolver's result for each element in source order, so
\* "A, B,C" gives exactly the references for A, B, C.
C4_ListFieldsSplitTrimResolve ==
    RuleReturned =>
        \A f \in ListFields :
            LET v == call.rule_row[f]
                out == result.value[f]
            IN /\ (v.k \in {"absent", "nan"} \/ v = Str(<<>>) \/ v = Str(any)) => out = <<>>
               /\ (v.k = "str" /\ v.s # <<>> /\ v.s # any) =>
                     /\ Len(out) = Len(CommaPieces(v.s))
                     /\ \A j \in 1..Len(out) : out[j] = Resolved(f, Trimmed(CommaPieces(v.s)[j]))
               /\ (v = Str(ABC) /\ f = "source_groups" /\ call.category = Infrastructure) =>
                     out = << InfraReference(<<"A">>), InfraReference(<<"B">>),
                              InfraReference(<<"C">>) >>

\* "A, B,C" in source_groups of an Infrastructure rule gave three references
C4_Witness ==
    /\ RuleReturned
    /\ call.rule_row.source_groups = Str(ABC)
    /\ call.category = Infrastructure
    /\ Len(result.value.source_groups) = 3
    /\ result.value.source_groups[2] = InfraReference(<<"B">>)
    /\ result.value.destination_groups = <<>>

\* C5: in create_rule the empty elements of a split and trimmed list-valued field
\* are dropped: no element of the field is the reference built from the empty
\* name, and the field is as long as the number of non-empty trimmed elements.
C5_EmptyElementsDropped ==
    RuleReturned =>
        \A f \in ListFields :
            LET v == call.rule_row[f]
                out == result.value[f]
            IN (v.k = "str" /\ v.s # <<>> /\ v.s # any) =>
                  /\ \A j \in 1..Len(out) : out[j] # Resolved(f, <<>>)
                  /\ Len(out) = Cardinality({j \in 1..Len(CommaPieces(v.s)) :
                                                Trimmed(CommaPieces(v.s)[j]) # <<>>})

\* the cells convert_to_bool is to read as true
ReadsAsTrue(v) ==
    \/ v = Bool(TRUE)
    \/ (v.k = "str" /\ v.s \in TrueSpellings)
    \/ v = Whole(1)

\* C6: convert_to_bool gives true exactly for native true, a text equal to TRUE
\* whatever the case of its letters, and a number equal to 1, and false for every
\* other cell (0, "false", "", absent, blank ...); it is applied alike to disabled,
\* logged, sources_excluded, destinations_excluded and the policy's locked.
C6_BooleanCoercion ==
    /\ RuleReturned =>
          \A f \in BoolFields : result.value[f] = ReadsAsTrue(call.rule_row[f])
    /\ (call.fn = "create_policy" /\ result.ok) =>
          result.value.locked = ReadsAsTrue(call.policy_row.locked)

\* "True" in the logged cell of a rule row was read as true
C6_Witness ==
    /\ RuleReturned
    /\ call.rule_row.logged = Str(<<"T", "r", "u", "e">>)
    /\ result.value.logged = TRUE
    /\ result.value.disabled = FALSE

\* a cell that is absent or blank
Missing(v) == v.k \in {"absent", "nan"}

\* C7: create_rule never fails: whatever the optional cells hold it returns a
\* rule, and absent or malformed cells take their defaults (action ALLOW,
\* direction IN_OUT, ip_version IPV4_IPV6, sequence_number 0, flags false,
\* display_name empty).
C7_CreateRuleNeverFails ==
    call.fn = "create_rule" =>
        /\ result.ok
        /\ Missing(call.rule_row.action) => result.value.action = Str(ALLOW)
        /\ Missing(call.rule_row.direction) => result.value.direction = Str(IN_OUT)
        /\ Missing(call.rule_row.ip_version) => result.value.ip_version = Str(IPV4_IPV6)
        /\ Missing(call.rule_row.sequence_number) => result.value.sequence_number = 0
        /\ Missing(call.rule_row.display_name) => result.value.display_name = <<>>
        /\ \A f \in BoolFields : Missing(call.rule_row[f]) => result.value[f] = FALSE

\* the latest call was construct_variable_reference for a service or a group
IsReference(type_str) ==
    call.fn = "construct_variable_reference" /\ call.type_str = type_str

\* C8: in both policy makers construct_variable_reference("service", n) is, from
\* n alone: the custom-service-group path (var.services_path) keyed by n when n
\* starts with SVCG_; otherwise the default-services path keyed by n when n ends
\* with _path; otherwise the services base path followed by n.
C8_ServiceReference ==
    IsReference("service") =>
        result = IF StartsWith(call.name, SVCG_)
                 THEN var_services_path \o call.name \o CloseBrace
                 ELSE IF EndsWith(call.name, _path)
                 THEN var_default_services_path \o call.name \o CloseBrace
                 ELSE var_services_base_path \o call.name

\* the references of one name in the three categories
GroupReferences(mk, name) ==
    {construct_variable_reference(mk, "group", name, c) : c \in Categories}

\* C9 as stated: in both policy makers the group reference keys Infrastructure and
\* Environment by n with _path appended, keys Application by n with no _path
\* appended, and the three categories give three different references.
C9_ApplicationKeyHasNoSuffix ==
    (IsReference("group") /\ call.category \in Categories) =>
        /\ call.category = Infrastructure => result = InfraReference(call.name)
        /\ call.category = Environment =>
              result = var_env_groups_path \o call.name \o _path \o CloseBrace
        /\ call.category = Application =>
              /\ ~EndsWith(result, call.name \o _path \o CloseBrace)
              /\ ~EndsWith(result, call.name \o _path)
        /\ Cardinality(GroupReferences(call.mk, call.name)) = 3

\* C9 as amended: the group reference is decided by (category, n): Infrastructure
\* and Environment use infra_groups_path and env_groups_path keyed by n with _path
\* appended; Application uses app_groups_path keyed by n with _path appended in
\* policymaker.py, and groups_base_path followed by n, nothing appended, in
\* optum_policy_maker.py; the three categories give three different references.
C9_GroupReferenceByCategory ==
    (IsReference("group") /\ call.category \in Categories) =>
        /\ call.category = Infrastructure => result = InfraReference(call.name)
        /\ call.category = Environment =>
              result = var_env_groups_path \o call.name \o _path \o CloseBrace
        /\ (call.category = Application /\ call.mk = "policymaker") =>
              result = var_app_groups_path \o call.name \o _path \o CloseBrace
        /\ (call.category = Application /\ call.mk = "optum") =>
              result = var_groups_base_path \o call.name
        /\ Cardinality(GroupReferences(call.mk, call.name)) = 3

\* policymaker.py resolved the Application group WebTier
C9_Witness ==
    /\ IsReference("group") /\ call.mk = "policymaker"
    /\ call.category = Application
    /\ call.name = <<"W","e","b","T","i","e","r">>
    /\ result = var_app_groups_path \o call.name \o _path \o CloseBrace

\* C10: in single-policy mode a header sequence_number that is present and zero
\* is serialized as the empty text, an absent one likewise, and every other
\* value unchanged.  (Zero is Python's: 0, 0.0 and False are equal to 0.)
C10_ZeroBecomesEmpty ==
    (IsCreatePolicy("policymaker") /\ result.ok) =>
        LET raw == call.policy_row.sequence_number
            out == result.value.sequence_number
        IN /\ raw \in {Absent, Whole(0), Bool(FALSE)} => out = Str(<<>>)
           /\ raw \notin {Absent, Whole(0), Bool(FALSE)} => out = raw
           /\ written # <<>> => written[1].policy.sequence_number = out

\* a header whose sequence_number cell is 0 was written with ""
C10_Witness ==
    /\ prog = "policymaker_main" /\ pc = "done"
    /\ call.policy_row.sequence_number = Whole(0)
    /\ written[1].policy.sequence_number = Str(<<>>)

\* the display name the resolution order gives a header row: the name column
\* when the row has one, else the Application column, else default-policy
ResolvedDisplayName(row) ==
    IF row.policy_name.k # "absent" THEN row.policy_name
    ELSE IF row.Application.k # "absent" THEN row.Application
    ELSE Str(default_policy)

\* C11: in both policy makers the display name of a produced policy is the name
\* column when present, else Application, else default-policy, and the name in
\* the path of every file written is that same display name.
C11_FileNamedAfterDisplayName ==
    (prog \in {"optum_main", "policymaker_main"} /\ call.fn = "create_policy" /\ result.ok)
    => /\ result.value.display_name = ResolvedDisplayName(call.policy_row)
       /\ \A i \in 1..Len(written) :
             written[i].file = ToStr(written[i].policy.display_name)

\* the rule list of the policy the latest create_policy call returned holds one
\* rule per row it was given, the j-th rule made from the j-th row
RulesInRowOrder ==
    (call.fn = "create_policy" /\ result.ok)
    => /\ Len(result.value.rule) = Len(call.rules)
       /\ \A j \in 1..Len(call.rules) :
             /\ result.value.rule[j].display_name
                   = ToStr(Get(call.rules[j].display_name, Str(<<>>)))
             /\ result.value.rule[j]
                   = create_rule(call.mk, call.rules[j], result.value.category).value

\* a list is the other one, or the other one with one more element at its end
Extends(longer, shorter) ==
    \/ longer = shorter
    \/ Len(longer) = Len(shorter) + 1 /\ SubSeq(longer, 1, Len(shorter)) = shorter

\* what a step may do to the policies: the lists only grow at their end, and a
\* tab of optum_policy_maker.py's main that succeeds puts its policy last in
\* the produced ones and, when its file is written, last in the written ones
OrderKeptByStep ==
    /\ Extends(produced', produced)
    /\ Extends(written', written)
    /\ (prog = "optum_main" /\ tab' = tab + 1)
       => /\ produced' = Append(produced, result'.value)
          /\ Len(produced') = tab'
          /\ written' # written => written'[Len(written')].policy = result'.value

\* C12: the rule list of every produced policy has exactly one rule per input
\* rule row, in the order of the rows, and in multi-policy mode the policies are
\* assembled and written in the order of their tabs.
C12_SourceOrderPreserved == []RulesInRowOrder /\ [][OrderKeptByStep]_vars

\* two tabs written, the second one with two different rules
C12_Witness ==
    /\ prog = "optum_main" /\ tab = 2 /\ Len(written) = 2
    /\ written[1].policy # written[2].policy
    /\ Len(written[2].policy.rule) = 2
    /\ written[2].policy.rule[1] # written[2].policy.rule[2]

\* the characters of [A-Za-z0-9_-]
IdentifierChars ==
    {"A","B","C","D","E","F","G","H","I","J","K","L","M","N","O","P","Q","R","S","T","U",
     "V","W","X","Y","Z","a","b","c","d","e","f","g","h","i","j","k","l","m","n","o","p",
     "q","r","s","t","u","v","w","x","y","z","0","1","2","3","4","5","6","7","8","9",
     "_","-"}

\* a key is the name with every character outside [A-Za-z0-9_-] turned into _
IsSanitized(key, name) ==
    /\ Len(key) = Len(name)
    /\ \A j \in 1..Len(name) :
          key[j] = (IF name[j] \in IdentifierChars THEN name[j] ELSE "_")

\* the comma-separated pieces of a text, trimmed, the empty ones left out
TrimmedPieces(t) ==
    SelectSeq([j \in 1..Len(CommaPieces(t)) |-> Trimmed(CommaPieces(t)[j])],
              LAMBDA piece : piece # <<>>)

\* the table of the one row {group_name: "DB Servers", csv: "10.0.0.1, 10.0.0.2,"}
DBServersTable == <<[group_name |-> Str(DBServers), csv |-> Str(TwoAddresses)]>>

\* C13: clean_ip_addresses splits the csv value on commas, trims every element
\* and drops the empty ones, an absent value giving the empty list;
\* generate_hcl_locals keys each group by its name with every character outside
\* [A-Za-z0-9_-] replaced by _; so the row "DB Servers" / "10.0.0.1, 10.0.0.2,"
\* gives the key DB_Servers with the addresses 10.0.0.1 and 10.0.0.2.
C13_CleanAddressesAndKeys ==
    /\ (call.fn = "clean_ip_addresses" /\ IsNa(call.csv_str)) => result = Return(<<>>)
    /\ (call.fn = "clean_ip_addresses" /\ call.csv_str.k = "str")
       => result = Return(TrimmedPieces(call.csv_str.s))
    /\ (call.fn = "generate_hcl_locals" /\ result.ok)
       => /\ Len(result.value) = Len(call.groups_data)
          /\ \A j \in 1..Len(call.groups_data) :
                /\ IsSanitized(result.value[j].clean_name, call.groups_data[j].group_name.s)
                /\ result.value[j].name = call.groups_data[j].group_name.s
                /\ result.value[j].addresses = call.groups_data[j].ip_addresses
    /\ (call.fn = "convert_xlsx_to_hcl" /\ call.df = DBServersTable)
       => /\ result.ok
          /\ written = <<[file |-> app_shared_ipsets,
                          policy |-> HclFile(<<[clean_name |-> DB_Servers, name |-> DBServers,
                                                addresses |-> <<Address1, Address2>>]>>, TRUE)]>>

\* the documented row went through ipset_maker.py's main
C13_Witness ==
    /\ prog = "ipset_main" /\ pc = "done"
    /\ call.df = DBServersTable
    /\ written[1].policy.locals[1].clean_name = DB_Servers
    /\ Len(written[1].policy.locals[1].addresses) = 2

\* the three mains, and the extensions each one is documented to take: the
\* policy makers a spreadsheet or delimited text, the IP-set maker an Excel file
Mains == {"optum_main", "policymaker_main", "ipset_main"}
SupportedExtension ==
    IF prog = "ipset_main" THEN Lower(InputFile.suffix) \in {xlsx, xls, xlsm}
    ELSE Lower(argv.suffix) \in {xlsx, csv}

\* the command line is one a main has to turn down
BadCommandLine ==
    \/ argv.argc # 2
    \/ ~argv.exists
    \/ (prog = "ipset_main" /\ Lower(argv.suffix) = lnk /\ ~argv.target.resolved)
    \/ ~InputFile.exists
    \/ ~SupportedExtension

\* C14: each of the three mains exits with a non-zero status, before any output
\* file is written, when the argument count is not exactly one, the resolved
\* input file does not exist or the file has an unsupported extension; and a run
\* ends with status zero only when it produced its output.
C14_ExitStatus ==
    prog \in Mains
    => /\ BadCommandLine => written = <<>>
       /\ (BadCommandLine /\ exit_status # -1) => exit_status # 0
       /\ exit_status = 0 => written # <<>>

\* the latest call was optum_policy_maker.py's create_policy on a header row
\* whose category does not pass validation
CategoryRejected ==
    /\ IsCreatePolicy("optum")
    /\ call.policy_row.category.k # "absent"
    /\ ~(call.policy_row.category.k = "str" /\ IsCategoryName(call.policy_row.category.s))

\* what a step may do around a rejected header row: the rejecting call leaves
\* the set of sequence numbers as it was handed in; in main it writes and
\* produces nothing, what the earlier tabs wrote stays, and the failed run takes
\* no further step
RejectionKeptByStep ==
    /\ CategoryRejected'
       => /\ ~result'.ok
          /\ existing_sequences' = call'.existing
          /\ prog = "optum_main"
             => /\ existing_sequences' = existing_sequences
                /\ written' = written /\ files' = files /\ produced' = produced
                /\ tab' = tab /\ Len(produced) = tab
                /\ \A i \in 1..Len(written) :
                      \E k \in 1..tab : written[i].policy = produced[k]
                /\ pc' = "failed" /\ exit_status' = 1
    /\ ~(prog = "optum_main" /\ pc = "failed")

NamesWithAddresses(df) ==
    {df[j].group_name.s : j \in {m \in 1..Len(df) :
        /\ df[m].group_name.k = "str"
        /\ df[m].csv.k = "str"
        /\ TrimmedPieces(df[m].csv.s) # <<>>}}

\* the entries of the locals block the latest run of ipset_maker.py wrote
EmittedLocals == written[1].policy.locals

\* C16: for every input table the locals block holds exactly one entry per
\* distinct group name that has at least one address, and the sanitized keys of
\* these entries are pairwise distinct.
C16_OneEntryPerGroupDistinctKeys ==
    (prog = "ipset_main" /\ pc = "done")
    => /\ {EmittedLocals[j].name : j \in 1..Len(EmittedLocals)} = NamesWithAddresses(call.df)
       /\ \A i, j \in 1..Len(EmittedLocals) :
             i # j => /\ EmittedLocals[i].name # EmittedLocals[j].name
                      /\ EmittedLocals[i].clean_name # EmittedLocals[j].clean_name

====
